---- MODULE Spec2Model ----
(***************************************************************************)
(* Model of the integrated agent framework                                 *)
(* (app/modules/intelligence/agents/integrated_agent_framework.py).        *)
(*                                                                         *)
(* An IntegratedAgentConfig is chosen, the constructor builds the          *)
(* LangGraph workflow from it, and a caller then calls run(ctx) and        *)
(* run_stream(ctx) on the agent.  Each node invocation either succeeds or  *)
(* raises inside its try block at the place where the agent logic is to    *)
(* be implemented (before the node touches results, history or the         *)
(* budget).  Strings are TLA+ strings; the classifier lower-cases and      *)
(* searches them character by character.                                   *)
(***************************************************************************)
EXTENDS Integers, Sequences, FiniteSets, TLC

VARIABLES
    config,       \* self.config: the IntegratedAgentConfig
    workflow,     \* self.workflow: the compiled graph, or NoWorkflow
    pc,           \* where the caller is: new / config_error / ready / running / done / recursion_error
    mode,         \* which entry point is executing: "none", "run" or "stream"
    state,        \* the AgentState threaded through the graph
    next_node,    \* the node the graph will invoke next (END when none)
    steps,        \* node invocations performed by the current call
    trace,        \* names of the nodes invoked by the current call, in order
    route,        \* what _reflection_router returned last in the current call
    emitted,      \* the ChatAgentResponses yielded so far by run_stream
    response,     \* the ChatAgentResponse returned by run, or NoResponse
    run_steps,    \* node invocations the completed run call performed
    broken,       \* roles whose node raises on every invocation
    faultEnv,     \* outcome of the k-th node invocation of a call, as far as revealed
    transient,    \* faults injected so far into nodes that are not broken
    budgets,      \* remaining_steps after each node invocation of the current call
    levels,       \* for each fault_tolerance_level, the state and the next node of
                  \* the current call made at that level with the same faults
    call,         \* a direct call of one helper method: its name and argument
    ret           \* what that call returned, once it has

vars == <<config, workflow, pc, mode, state, next_node, steps, trace, route,
          emitted, response, run_steps, broken, faultEnv, transient, budgets, levels,
          call, ret>>

\* the variables of an agent and of its run and run_stream calls
agentVars == <<config, workflow, pc, mode, state, next_node, steps, trace, route,
               emitted, response, run_steps, broken, faultEnv, transient, budgets, levels>>

-----------------------------------------------------------------------------
(* Bounds of the model *)

\* max_iterations ranges over 0..MaxIterations (and the default of the config)
MaxIterations == 2

\* at most this many faults are injected into nodes that are not broken
MaxFaults == 1

\* an error message given to _classify_error directly is made of at most
\* this many fragments
MaxFragments == 2

\* an agent_types list given to _build_workflow directly names at most this
\* many agent types
MaxListLen == 3

\* a history list given to _extract_tool_calls directly has at most this many
\* events
MaxEvents == 3

\* max_steps of a PlanningAgentConfig is at most this
MaxSteps == 6

\* max_sources of a ResearchAgentConfig is at most this
MaxSources == 7

\* a results list given to _format_response directly has at most this many
\* entries
MaxResults == 3

-----------------------------------------------------------------------------
(* AgentType, node names, configuration *)

CODE == "code"

RESEARCH == "research"

PLANNING == "planning"

REFLECTION == "reflection"

AgentType == {CODE, RESEARCH, PLANNING, REFLECTION}

START == "__start__"

END == "__end__"

\* the node a role is registered under
NodeOf(role) == role \o "_agent"

DefaultMaxIterations == 5

DefaultFaultToleranceLevel == 2

\* langgraph's default recursion_limit: invoke()/astream() raise
\* GraphRecursionError when the graph has not finished after this many steps
RecursionLimit == 25

FaultToleranceLevels == 0..3

\* x in xs, for a Python list xs
In(x, xs) == \E i \in 1..Len(xs) : xs[i] = x

\* The code reads only CODE, RESEARCH and PLANNING from agent_types.
WorkerRoleSets == SUBSET {CODE, RESEARCH, PLANNING}

\* agent_types lists of the agents that are run: one list for every set of
\* worker roles, the list that names Reflection alone, and lists that name
\* Reflection beside a worker role
AgentTypeLists ==
    { SelectSeq(<<PLANNING, RESEARCH, CODE>>, LAMBDA r : r \in S) : S \in WorkerRoleSets }
    \cup {<<REFLECTION>>, <<RESEARCH, REFLECTION>>, <<REFLECTION, CODE>>}

IntegratedAgentConfig(types, refl, maxit, ftl) ==
    [agent_types |-> types, reflection_enabled |-> refl,
     max_iterations |-> maxit, fault_tolerance_level |-> ftl]

\* configurations explored: every role list and flag with a small iteration
\* budget, and every role list with the defaults of the config class
Configs ==
    { IntegratedAgentConfig(t, r, m, f) :
        t \in AgentTypeLists, r \in BOOLEAN, m \in 0..MaxIterations,
        f \in FaultToleranceLevels }
    \cup
    { IntegratedAgentConfig(t, TRUE, DefaultMaxIterations, DefaultFaultToleranceLevel) :
        t \in AgentTypeLists }

-----------------------------------------------------------------------------
(* Strings *)

UpperCaseLetters == "ABCDEFGHIJKLMNOPQRSTUVWXYZ"

LowerCaseLetters == "abcdefghijklmnopqrstuvwxyz"

CharAt(s, i) == SubSeq(s, i, i)

\* str.lower() on one character
LowerChar(c) ==
    IF \E i \in 1..Len(UpperCaseLetters) : CharAt(UpperCaseLetters, i) = c
    THEN CharAt(LowerCaseLetters,
                CHOOSE i \in 1..Len(UpperCaseLetters) : CharAt(UpperCaseLetters, i) = c)
    ELSE c

RECURSIVE Lower(_)
\* str.lower()
Lower(s) == IF Len(s) = 0 THEN "" ELSE LowerChar(CharAt(s, 1)) \o Lower(SubSeq(s, 2, Len(s)))

\* kw in s
Contains(s, kw) ==
    \E i \in 1..(Len(s) - Len(kw) + 1) : SubSeq(s, i, i + Len(kw) - 1) = kw

\* any(kw in s for kw in kws)
ContainsAny(s, kws) == \E k \in 1..Len(kws) : Contains(s, kws[k])

-----------------------------------------------------------------------------
(* _classify_error and _reflection_router *)

CodeKeywords == <<"code", "syntax", "runtime", "exception">>

ResearchKeywords == <<"research", "information", "data">>

PlanningKeywords == <<"plan", "strategy", "approach">>

\* _classify_error without the lower(): keywords are matched case-sensitively
ClassifyErrorCaseSensitive(error) ==
    IF ContainsAny(error, CodeKeywords) THEN "code"
    ELSE IF ContainsAny(error, ResearchKeywords) THEN "research"
    ELSE IF ContainsAny(error, PlanningKeywords) THEN "planning"
    ELSE "code"

\* (the source evaluates error.lower() for every keyword; the value is the
\* same each time and is computed once here)
ClassifyError(error) ==
    LET error_lower == Lower(error)
    IN  IF ContainsAny(error_lower, CodeKeywords) THEN "code"
        ELSE IF ContainsAny(error_lower, ResearchKeywords) THEN "research"
        ELSE IF ContainsAny(error_lower, PlanningKeywords) THEN "planning"
        ELSE "code"

\* the routing below the budget check, on the error at position i of errors
RouteOnError(cfg, st, i) ==
    IF Len(st.errors) > 0
    THEN LET error_type == ClassifyError(st.errors[i])
         IN  IF error_type = "code" /\ In(CODE, cfg.agent_types) THEN "code"
             ELSE IF error_type = "research" /\ In(RESEARCH, cfg.agent_types) THEN "research"
             ELSE IF error_type = "planning" /\ In(PLANNING, cfg.agent_types) THEN "planning"
             ELSE "end"
    ELSE "end"

\* _reflection_router with the budget check off by one (< 0 for <= 0)
ReflectionRouterStrictBudget(cfg, st) ==
    IF st.remaining_steps < 0 THEN "end" ELSE RouteOnError(cfg, st, Len(st.errors))

\* _reflection_router reading errors[0] where the code reads errors[-1]
ReflectionRouterFirstError(cfg, st) ==
    IF st.remaining_steps <= 0 THEN "end" ELSE RouteOnError(cfg, st, 1)

\* a router that sends a run without errors back to Code while budget remains
ReflectionRouterRetriesWithoutErrors(cfg, st) ==
    IF st.remaining_steps <= 0 THEN "end"
    ELSE IF Len(st.errors) > 0 THEN RouteOnError(cfg, st, Len(st.errors))
    ELSE IF In(CODE, cfg.agent_types) THEN "code"
    ELSE "end"

ReflectionRouter(cfg, st) ==
    IF st.remaining_steps <= 0 THEN "end"
    ELSE IF Len(st.errors) > 0
         THEN LET error_type == ClassifyError(st.errors[Len(st.errors)])
              IN  IF error_type = "code" /\ In(CODE, cfg.agent_types) THEN "code"
                  ELSE IF error_type = "research" /\ In(RESEARCH, cfg.agent_types) THEN "research"
                  ELSE IF error_type = "planning" /\ In(PLANNING, cfg.agent_types) THEN "planning"
                  ELSE "end"
         ELSE "end"

-----------------------------------------------------------------------------
(* _build_workflow and _add_workflow_edges *)

NoWorkflow == [compiled |-> FALSE, nodes |-> {}, edges |-> {}, branches |-> <<>>]

\* _build_workflow registering code_agent whether or not CODE is listed
RegisteredNodesAlwaysCode(cfg) ==
    {"code_agent"}
    \cup (IF In(RESEARCH, cfg.agent_types) THEN {"research_agent"} ELSE {})
    \cup (IF In(PLANNING, cfg.agent_types) THEN {"planning_agent"} ELSE {})
    \cup (IF cfg.reflection_enabled THEN {"reflection_agent"} ELSE {})

\* _build_workflow registering reflection_agent when the Reflection role is
\* listed instead of when reflection is enabled
RegisteredNodesReflectionIfListed(cfg) ==
    (IF In(CODE, cfg.agent_types) THEN {"code_agent"} ELSE {})
    \cup (IF In(RESEARCH, cfg.agent_types) THEN {"research_agent"} ELSE {})
    \cup (IF In(PLANNING, cfg.agent_types) THEN {"planning_agent"} ELSE {})
    \cup (IF In(REFLECTION, cfg.agent_types) THEN {"reflection_agent"} ELSE {})

\* workflow.add_node calls of _build_workflow
RegisteredNodes(cfg) ==
    (IF In(CODE, cfg.agent_types) THEN {"code_agent"} ELSE {})
    \cup (IF In(RESEARCH, cfg.agent_types) THEN {"research_agent"} ELSE {})
    \cup (IF In(PLANNING, cfg.agent_types) THEN {"planning_agent"} ELSE {})
    \cup (IF cfg.reflection_enabled THEN {"reflection_agent"} ELSE {})

\* _build_workflow entering at the node of the first worker role listed
EntryPointFirstListed(cfg) ==
    LET workers == SelectSeq(cfg.agent_types, LAMBDA r : r # REFLECTION)
    IN  IF Len(workers) > 0 THEN NodeOf(workers[1]) ELSE "code_agent"

\* workflow.set_entry_point of _build_workflow
EntryPoint(cfg) ==
    IF In(PLANNING, cfg.agent_types) THEN "planning_agent"
    ELSE IF In(RESEARCH, cfg.agent_types) THEN "research_agent"
    ELSE "code_agent"

\* _add_workflow_edges ending the chain after code_agent even when reflection
\* is enabled
StaticEdgesCodeToEnd(cfg) ==
    (IF In(PLANNING, cfg.agent_types) /\ In(RESEARCH, cfg.agent_types)
     THEN {<<"planning_agent", "research_agent">>} ELSE {})
    \cup
    (IF In(RESEARCH, cfg.agent_types) /\ In(CODE, cfg.agent_types)
     THEN {<<"research_agent", "code_agent">>} ELSE {})
    \cup
    (IF In(CODE, cfg.agent_types) THEN {<<"code_agent", END>>} ELSE {})

\* workflow.add_edge calls of _add_workflow_edges
StaticEdges(cfg) ==
    (IF In(PLANNING, cfg.agent_types) /\ In(RESEARCH, cfg.agent_types)
     THEN {<<"planning_agent", "research_agent">>} ELSE {})
    \cup
    (IF In(RESEARCH, cfg.agent_types) /\ In(CODE, cfg.agent_types)
     THEN {<<"research_agent", "code_agent">>} ELSE {})
    \cup
    (IF cfg.reflection_enabled
     THEN (IF In(CODE, cfg.agent_types)
           THEN {<<"code_agent", "reflection_agent">>} ELSE {})
     ELSE (IF In(CODE, cfg.agent_types) THEN {<<"code_agent", END>>}
           ELSE IF In(RESEARCH, cfg.agent_types) THEN {<<"research_agent", END>>}
           ELSE {}))

\* the path map of workflow.add_conditional_edges("reflection_agent", ...)
ConditionalEdges(cfg) ==
    IF cfg.reflection_enabled
    THEN [end      |-> END,
          code     |-> IF In(CODE, cfg.agent_types) THEN "code_agent" ELSE END,
          research |-> IF In(RESEARCH, cfg.agent_types) THEN "research_agent" ELSE END,
          planning |-> IF In(PLANNING, cfg.agent_types) THEN "planning_agent" ELSE END]
    ELSE <<>>

\* every edge of the graph, the entry edge and the branch targets included
AllEdges(cfg) ==
    {<<START, EntryPoint(cfg)>>} \cup StaticEdges(cfg)
    \cup {<<"reflection_agent", ConditionalEdges(cfg)[k]>> : k \in DOMAIN ConditionalEdges(cfg)}

\* workflow.compile() rejects an edge that starts or ends at an unknown node
Compiles(cfg) ==
    \A e \in AllEdges(cfg) :
        /\ e[1] \in RegisteredNodes(cfg) \cup {START}
        /\ e[2] \in RegisteredNodes(cfg) \cup {END}

BuildWorkflow(cfg) ==
    [compiled |-> TRUE, nodes |-> RegisteredNodes(cfg),
     edges |-> {<<START, EntryPoint(cfg)>>} \cup StaticEdges(cfg),
     branches |-> ConditionalEdges(cfg)]

-----------------------------------------------------------------------------
(* The node functions of DefaultIntegratedAgent.  outcome is <<>> when the  *)
(* agent logic succeeds and <<e>> when it raises an exception whose str()   *)
(* is e.                                                                    *)

AgentResult(content, citations) == [content |-> content, citations |-> citations]

HistoryEntry(agent, result) == [agent |-> agent, result |-> result, tool_calls |-> <<>>]

\* the recovery placeholder of the three worker nodes
RecoveryResult(role) ==
    AgentResult("The " \o role \o " agent encountered an error but is attempting to recover.", <<>>)

\* the except branch without the fault_tolerance_level test
WorkerFaultAlwaysRecovers(cfg, st, role, e) ==
    LET withError == [st EXCEPT !.errors = st.errors \o <<"Error in " \o role \o " agent: " \o e>>]
    IN  [withError EXCEPT !.results = Append(withError.results, RecoveryResult(role))]

\* the except branch counting a recovered fault as a step: at level >= 2 it
\* also decrements remaining_steps
WorkerFaultRecoveryCountsStep(cfg, st, role, e) ==
    LET withError == [st EXCEPT !.errors = st.errors \o <<"Error in " \o role \o " agent: " \o e>>]
    IN  IF cfg.fault_tolerance_level >= 2
        THEN [withError EXCEPT !.results = Append(withError.results, RecoveryResult(role)),
                               !.remaining_steps = withError.remaining_steps - 1]
        ELSE withError

\* the except branch assigning [error_msg] to errors instead of appending it
WorkerFaultOverwritesErrors(cfg, st, role, e) ==
    LET withError == [st EXCEPT !.errors = <<"Error in " \o role \o " agent: " \o e>>]
    IN  IF cfg.fault_tolerance_level >= 2
        THEN [withError EXCEPT !.results = Append(withError.results, RecoveryResult(role))]
        ELSE withError

\* the except branch recording the exception text without the role name
WorkerFaultMessageWithoutRole(cfg, st, role, e) ==
    LET withError == [st EXCEPT !.errors = st.errors \o <<"Error: " \o e>>]
    IN  IF cfg.fault_tolerance_level >= 2
        THEN [withError EXCEPT !.results = Append(withError.results, RecoveryResult(role))]
        ELSE withError

\* the except branch shared, line for line, by the code, research and planning nodes
WorkerFault(cfg, st, role, e) ==
    LET withError == [st EXCEPT !.errors = st.errors \o <<"Error in " \o role \o " agent: " \o e>>]
    IN  IF cfg.fault_tolerance_level >= 2
        THEN [withError EXCEPT !.results = Append(withError.results, RecoveryResult(role))]
        ELSE withError

\* the update of a node that also records its result in the request context
UpdateStateLogsToContext(st, agent, result) ==
    [st EXCEPT !.results = Append(st.results, result),
               !.history = Append(st.history, HistoryEntry(agent, result)),
               !.remaining_steps = st.remaining_steps - 1,
               !.context = [st.context EXCEPT !.history = Append(st.context.history, result.content)]]

\* the update of a node that clears errors once the node has succeeded
UpdateStateClearsErrors(st, agent, result) ==
    [st EXCEPT !.results = Append(st.results, result),
               !.history = Append(st.history, HistoryEntry(agent, result)),
               !.remaining_steps = st.remaining_steps - 1,
               !.errors = <<>>]

\* the "Update the state" part of the try block of every node
UpdateState(st, agent, result) ==
    [st EXCEPT !.results = Append(st.results, result),
               !.history = Append(st.history, HistoryEntry(agent, result)),
               !.remaining_steps = st.remaining_steps - 1]

\* the code node assigning current_agent inside the try block, after the
\* agent logic
CodeAgentNodeSetsAgentInTry(cfg, st, outcome) ==
    LET s1 == [st EXCEPT !.current_agent = "code_agent"]
    IN  IF outcome = <<>>
        THEN UpdateState(s1, "code_agent",
                 AgentResult("Code agent processed query: " \o s1.query, <<>>))
        ELSE WorkerFault(cfg, st, "code", outcome[1])

CodeAgentNode(cfg, st, outcome) ==
    LET s1 == [st EXCEPT !.current_agent = "code_agent"]
    IN  IF outcome = <<>>
        THEN UpdateState(s1, "code_agent",
                 AgentResult("Code agent processed query: " \o s1.query, <<>>))
        ELSE WorkerFault(cfg, s1, "code", outcome[1])

ResearchAgentNode(cfg, st, outcome) ==
    LET s1 == [st EXCEPT !.current_agent = "research_agent"]
    IN  IF outcome = <<>>
        THEN UpdateState(s1, "research_agent",
                 AgentResult("Research agent processed query: " \o s1.query,
                             <<"research_source_1", "research_source_2">>))
        ELSE WorkerFault(cfg, s1, "research", outcome[1])

PlanningAgentNode(cfg, st, outcome) ==
    LET s1 == [st EXCEPT !.current_agent = "planning_agent"]
    IN  IF outcome = <<>>
        THEN UpdateState(s1, "planning_agent",
                 AgentResult("Planning agent processed query: " \o s1.query, <<>>))
        ELSE WorkerFault(cfg, s1, "planning", outcome[1])

ReflectionAgentNode(cfg, st, outcome) ==
    LET s1 == [st EXCEPT !.current_agent = "reflection_agent"]
    IN  IF outcome = <<>>
        THEN UpdateState(s1, "reflection_agent",
                 IF Len(s1.errors) > 0
                 THEN AgentResult("Reflection agent identified issues: "
                                      \o s1.errors[Len(s1.errors)], <<>>)
                 ELSE AgentResult("Reflection agent reviewed the results and found them satisfactory.",
                                  <<>>))
        ELSE [s1 EXCEPT !.errors = s1.errors \o <<"Error in reflection agent: " \o outcome[1]>>]

\* the function registered under a node name
NodeFunction(node, cfg, st, outcome) ==
    CASE node = "code_agent" -> CodeAgentNode(cfg, st, outcome)
      [] node = "research_agent" -> ResearchAgentNode(cfg, st, outcome)
      [] node = "planning_agent" -> PlanningAgentNode(cfg, st, outcome)
      [] node = "reflection_agent" -> ReflectionAgentNode(cfg, st, outcome)

-----------------------------------------------------------------------------
(* _format_response, _extract_tool_calls, _extract_citations *)

\* dict.get(key, default)
Get(d, key, default) == IF key \in DOMAIN d THEN d[key] ELSE default

\* truthiness of d.get(key) for a list or string value
Truthy(d, key) == key \in DOMAIN d /\ Len(d[key]) > 0

NoResultsMessage == "No results were produced by the agent."

RECURSIVE Join(_, _)
\* sep.join(parts)
Join(parts, sep) ==
    IF Len(parts) = 0 THEN ""
    ELSE IF Len(parts) = 1 THEN parts[1]
    ELSE parts[1] \o sep \o Join(Tail(parts), sep)

RECURSIVE ResponseParts(_)
\* the contents of the results whose content is not empty, in order
ResponseParts(results) ==
    IF Len(results) = 0 THEN <<>>
    ELSE (IF Truthy(results[1], "content") THEN <<results[1].content>> ELSE <<>>)
         \o ResponseParts(Tail(results))

FormatResponse(result) ==
    IF ~Truthy(result, "results") THEN NoResultsMessage
    ELSE Join(ResponseParts(result.results), "\n\n")

ToolCallResponse(tc) ==
    [call_id |-> Get(tc, "id", "unknown"),
     event_type |-> Get(tc, "event_type", "call"),
     tool_name |-> Get(tc, "name", "unknown"),
     tool_response |-> Get(tc, "response", ""),
     tool_call_details |-> Get(tc, "details", <<>>)]

RECURSIVE MapToolCalls(_)
MapToolCalls(tcs) ==
    IF Len(tcs) = 0 THEN <<>>
    ELSE <<ToolCallResponse(tcs[1])>> \o MapToolCalls(Tail(tcs))

RECURSIVE ToolCallsOfNewestFirst(_)
\* the extraction putting the tool calls of later events first
ToolCallsOfNewestFirst(history) ==
    IF Len(history) = 0 THEN <<>>
    ELSE ToolCallsOfNewestFirst(Tail(history))
         \o (IF Truthy(history[1], "tool_calls") THEN MapToolCalls(history[1].tool_calls) ELSE <<>>)

RECURSIVE ToolCallsOf(_)
ToolCallsOf(history) ==
    IF Len(history) = 0 THEN <<>>
    ELSE (IF Truthy(history[1], "tool_calls") THEN MapToolCalls(history[1].tool_calls) ELSE <<>>)
         \o ToolCallsOf(Tail(history))

ExtractToolCalls(result) == ToolCallsOf(Get(result, "history", <<>>))

\* list(set(citations)): the order of the list is not determined, so the
\* citations of a response are kept as the set
ExtractCitations(result) ==
    LET results == Get(result, "results", <<>>)
    IN  UNION { IF Truthy(results[i], "citations")
                THEN { results[i].citations[j] : j \in 1..Len(results[i].citations) }
                ELSE {} : i \in 1..Len(results) }

RECURSIVE CollectCitations(_)
\* the list built by citations.extend(r["citations"]) over the results
CollectCitations(results) ==
    IF Len(results) = 0 THEN <<>>
    ELSE (IF Truthy(results[1], "citations") THEN results[1].citations ELSE <<>>)
         \o CollectCitations(Tail(results))

\* set(xs)
SetOf(xs) == { xs[i] : i \in 1..Len(xs) }

\* list(S): the elements of S once each, in an order that is not determined
ListsOf(S) ==
    { l \in [1..Cardinality(S) -> S] : \A i, j \in 1..Cardinality(S) : l[i] = l[j] => i = j }

\* _extract_citations returning the collected list without set()
CitationListsWithoutSet(result) == { CollectCitations(Get(result, "results", <<>>)) }

\* the lists _extract_citations may return
CitationLists(result) == ListsOf(SetOf(CollectCitations(Get(result, "results", <<>>))))

ChatAgentResponse(result) ==
    [response |-> FormatResponse(result),
     tool_calls |-> ExtractToolCalls(result),
     citations |-> ExtractCitations(result)]

-----------------------------------------------------------------------------
(* The request, the fault environment, the initial state *)

\* the ChatContext of the request; the same request is given to both calls
ChatContext ==
    [query |-> "build a login page", project_id |-> "p1", curr_agent_id |-> "a1",
     history |-> <<"hi">>, node_ids |-> <<>>, additional_context |-> ""]

\* str(e) of the exceptions a node's agent logic raises
ExceptionTexts == {"timeout", "missing Data"}

\* str(e) of the exception a broken node raises on every invocation
BrokenText == "timeout"

NoCall == [fn |-> "none", arg |-> <<>>]

NoReturn == [done |-> FALSE, value |-> <<>>]

\* run has not returned (a returned response never has an empty text here)
NoResponse == [response |-> "", tool_calls |-> <<>>, citations |-> {}]

\* the state dictionary run and run_stream create
InitialState(cfg, ctx) ==
    [query |-> ctx.query,
     context |-> [project_id |-> ctx.project_id, agent_id |-> ctx.curr_agent_id,
                  history |-> ctx.history,
                  node_ids |-> IF Len(ctx.node_ids) > 0 THEN ctx.node_ids ELSE <<>>,
                  additional_context |-> ctx.additional_context],
     results |-> <<>>,
     errors |-> <<>>,
     remaining_steps |-> cfg.max_iterations,
     current_agent |-> "",
     history |-> <<>>]

\* the state before any call: nothing has been created from a request yet
NoState ==
    [query |-> "", context |-> <<>>, results |-> <<>>, errors |-> <<>>,
     remaining_steps |-> 0, current_agent |-> "", history |-> <<>>]

RoleOfNode(node) ==
    CASE node = "code_agent" -> CODE
      [] node = "research_agent" -> RESEARCH
      [] node = "planning_agent" -> PLANNING
      [] node = "reflection_agent" -> REFLECTION

\* the outcomes the k-th invocation of a call may have, k = steps + 1: the
\* one already revealed to an earlier call, else a fault if the node is
\* broken, else success or one of the remaining transient faults
Outcomes(node) ==
    IF steps + 1 <= Len(faultEnv) THEN {faultEnv[steps + 1]}
    ELSE IF RoleOfNode(node) \in broken THEN {<<BrokenText>>}
    ELSE {<<>>} \cup (IF transient < MaxFaults THEN {<<e>> : e \in ExceptionTexts} ELSE {})

-----------------------------------------------------------------------------
(* The graph engine (workflow.invoke / workflow.astream) *)

\* an engine that ends the run after a worker node that left an error
NextNodeEndsOnError(wf, cfg, node, st) ==
    IF node \notin {START, "reflection_agent"} /\ Len(st.errors) > 0 THEN END
    ELSE IF \E e \in wf.edges : e[1] = node
    THEN (CHOOSE e \in wf.edges : e[1] = node)[2]
    ELSE IF node = "reflection_agent" /\ DOMAIN wf.branches # {}
         THEN wf.branches[RouteOnError(cfg, st, Len(st.errors))]
         ELSE END

\* the node that follows `node` once it has returned st: its static edge if
\* it has one, the branch the router selects out of reflection_agent, else END
NextNode(wf, cfg, node, st) ==
    IF \E e \in wf.edges : e[1] = node
    THEN (CHOOSE e \in wf.edges : e[1] = node)[2]
    ELSE IF node = "reflection_agent" /\ DOMAIN wf.branches # {}
         THEN wf.branches[ReflectionRouter(cfg, st)]
         ELSE END

\* what astream yields for one step: the update of the node that ran, keyed
\* by the node's name
StreamEvent(node, st) == [n \in {node} |-> st]

\* the configuration of the same call at fault_tolerance_level f
AtLevel(cfg, f) == [cfg EXCEPT !.fault_tolerance_level = f]

NoLevels ==
    [f \in FaultToleranceLevels |-> [workflow |-> NoWorkflow, state |-> NoState, next_node |-> END]]

\* every level's agent builds its graph and its call starts from the initial
\* state at the entry node
StartAtLevels(cfg) ==
    [f \in FaultToleranceLevels |->
        LET wf == BuildWorkflow(AtLevel(cfg, f))
            st == InitialState(AtLevel(cfg, f), ChatContext)
        IN  [workflow |-> wf,
             state |-> st,
             next_node |-> NextNode(wf, AtLevel(cfg, f), START, st)]]

\* every level's call invokes its next node with the outcome of the step
StepAtLevels(cfg, lv, outcome) ==
    [f \in FaultToleranceLevels |->
        IF lv[f].next_node = END THEN lv[f]
        ELSE LET st == NodeFunction(lv[f].next_node, AtLevel(cfg, f), lv[f].state, outcome)
             IN  [workflow |-> lv[f].workflow,
                  state |-> st,
                  next_node |-> NextNode(lv[f].workflow, AtLevel(cfg, f), lv[f].next_node, st)]]

Init ==
    /\ config \in Configs
    /\ workflow = NoWorkflow
    /\ pc = "new"
    /\ mode = "none"
    /\ state = NoState
    /\ next_node = END
    /\ steps = 0
    /\ trace = <<>>
    /\ route = "none"
    /\ emitted = <<>>
    /\ response = NoResponse
    /\ run_steps = 0
    /\ broken \in SUBSET {r \in AgentType : NodeOf(r) \in RegisteredNodes(config)}
    /\ faultEnv = <<>>
    /\ transient = 0
    /\ budgets = <<>>
    /\ levels = NoLevels
    /\ call = NoCall
    /\ ret = NoReturn

\* BaseIntegratedAgent.__init__
Construct ==
    /\ pc = "new"
    /\ IF Compiles(config)
       THEN workflow' = BuildWorkflow(config) /\ pc' = "ready"
       ELSE workflow' = NoWorkflow /\ pc' = "config_error"
    /\ UNCHANGED <<budgets, levels, call, ret, config, mode, state, next_node, steps, trace, route, emitted,
                   response, run_steps, broken, faultEnv, transient>>

\* run(ctx) up to workflow.invoke(state)
Run ==
    /\ pc = "ready"
    /\ mode = "none"
    /\ mode' = "run"
    /\ pc' = "running"
    /\ state' = InitialState(config, ChatContext)
    /\ next_node' = NextNode(workflow, config, START, state')
    /\ steps' = 0
    /\ trace' = <<>>
    /\ route' = "none"
    /\ budgets' = <<>>
    /\ levels' = StartAtLevels(config)
    /\ UNCHANGED <<call, ret, config, workflow, emitted, response, run_steps, broken, faultEnv, transient>>

\* run_stream(ctx) up to workflow.astream(state), called after run has ended
RunStream ==
    /\ pc \in {"done", "recursion_error"}
    /\ mode = "run"
    /\ mode' = "stream"
    /\ pc' = "running"
    /\ state' = InitialState(config, ChatContext)
    /\ next_node' = NextNode(workflow, config, START, state')
    /\ steps' = 0
    /\ trace' = <<>>
    /\ route' = "none"
    /\ budgets' = <<>>
    /\ levels' = StartAtLevels(config)
    /\ emitted' = <<>>
    /\ UNCHANGED <<call, ret, config, workflow, response, run_steps, broken, faultEnv, transient>>

\* one step of the graph: the node is invoked, the edge out of it is
\* resolved, and run_stream yields the response made from the step's event
Invoke(node) ==
    /\ pc = "running"
    /\ next_node = node
    /\ steps < RecursionLimit
    /\ \E outcome \in Outcomes(node) :
        /\ state' = NodeFunction(node, config, state, outcome)
        /\ faultEnv' = IF steps + 1 <= Len(faultEnv) THEN faultEnv ELSE Append(faultEnv, outcome)
        /\ transient' = IF steps + 1 > Len(faultEnv) /\ outcome # <<>>
                           /\ RoleOfNode(node) \notin broken
                        THEN transient + 1 ELSE transient
    /\ next_node' = NextNode(workflow, config, node, state')
    /\ route' = IF node = "reflection_agent" THEN ReflectionRouter(config, state') ELSE route
    /\ steps' = steps + 1
    /\ trace' = Append(trace, node)
    /\ budgets' = Append(budgets, state'.remaining_steps)
    /\ levels' = StepAtLevels(config, levels, faultEnv'[steps'])
    /\ emitted' = IF mode = "stream"
                  THEN Append(emitted, ChatAgentResponse(StreamEvent(node, state')))
                  ELSE emitted
    /\ UNCHANGED <<call, ret, config, workflow, pc, mode, response, run_steps, broken>>

InvokeCodeAgent == Invoke("code_agent")

InvokeResearchAgent == Invoke("research_agent")

InvokePlanningAgent == Invoke("planning_agent")

InvokeReflectionAgent == Invoke("reflection_agent")

\* workflow.invoke returns the final state and run returns its response
RunReturn ==
    /\ pc = "running"
    /\ mode = "run"
    /\ next_node = END
    /\ pc' = "done"
    /\ response' = ChatAgentResponse(state)
    /\ run_steps' = steps
    /\ UNCHANGED <<budgets, levels, call, ret, config, workflow, mode, state, next_node, steps, trace, route,
                   emitted, broken, faultEnv, transient>>

\* workflow.astream is exhausted and run_stream ends
StreamEnd ==
    /\ pc = "running"
    /\ mode = "stream"
    /\ next_node = END
    /\ pc' = "done"
    /\ UNCHANGED <<call, ret, config, workflow, mode, state, next_node, steps, trace, route,
                   emitted, response, run_steps, broken, faultEnv, transient, budgets, levels>>

\* the graph has not reached END within the recursion limit: invoke/astream
\* raise GraphRecursionError, which run and run_stream do not catch
RecursionError ==
    /\ pc = "running"
    /\ next_node # END
    /\ steps >= RecursionLimit
    /\ pc' = "recursion_error"
    /\ run_steps' = IF mode = "run" THEN steps ELSE run_steps
    /\ UNCHANGED <<budgets, levels, call, ret, config, workflow, mode, state, next_node, steps, trace, route,
                   emitted, response, broken, faultEnv, transient>>

Next ==
    \/ Construct
    \/ Run
    \/ RunStream
    \/ InvokeCodeAgent
    \/ InvokeResearchAgent
    \/ InvokePlanningAgent
    \/ InvokeReflectionAgent
    \/ RunReturn
    \/ StreamEnd
    \/ RecursionError

Spec == Init /\ [][Next]_vars

-----------------------------------------------------------------------------
(* _classify_error called directly on a message *)

\* pieces of error messages, each with the vocabulary its text belongs to
Fragments ==
    { [text |-> "code", kind |-> "code"],
      [text |-> "Syntax", kind |-> "code"],
      [text |-> "RUNTIME", kind |-> "code"],
      [text |-> "an Exception", kind |-> "code"],
      [text |-> "decoder", kind |-> "code"],
      [text |-> "research", kind |-> "research"],
      [text |-> "missing Information", kind |-> "research"],
      [text |-> "DATA", kind |-> "research"],
      [text |-> "plan", kind |-> "planning"],
      [text |-> "wrong Strategy", kind |-> "planning"],
      [text |-> "APPROACH", kind |-> "planning"],
      [text |-> "explanation", kind |-> "planning"],
      [text |-> "xyz", kind |-> "none"],
      [text |-> "", kind |-> "none"],
      [text |-> "cod e", kind |-> "none"],
      [text |-> "Timeout: 30s", kind |-> "none"] }

FragmentSeqs == UNION { [1..n -> Fragments] : n \in 1..MaxFragments }

\* the message made of the fragments, separated by spaces
MessageOf(frags) == Join([i \in 1..Len(frags) |-> frags[i].text], " ")

DefaultConfig ==
    IntegratedAgentConfig(<<CODE>>, TRUE, DefaultMaxIterations, DefaultFaultToleranceLevel)

ClassifyInit ==
    /\ config = DefaultConfig
    /\ workflow = BuildWorkflow(DefaultConfig)
    /\ pc = "ready"
    /\ mode = "none"
    /\ state = NoState
    /\ next_node = END
    /\ steps = 0
    /\ trace = <<>>
    /\ route = "none"
    /\ emitted = <<>>
    /\ response = NoResponse
    /\ run_steps = 0
    /\ broken = {}
    /\ faultEnv = <<>>
    /\ transient = 0
    /\ budgets = <<>>
    /\ levels = NoLevels
    /\ \E frags \in FragmentSeqs :
          call = [fn |-> "_classify_error",
                  arg |-> [error |-> MessageOf(frags), fragments |-> frags]]
    /\ ret = NoReturn

\* self._classify_error(error)
CallClassifyError ==
    /\ call.fn = "_classify_error"
    /\ ~ret.done
    /\ ret' = [done |-> TRUE, value |-> ClassifyError(call.arg.error)]
    /\ UNCHANGED <<call, agentVars>>

SpecClassify == ClassifyInit /\ [][CallClassifyError]_vars

-----------------------------------------------------------------------------
(* _build_workflow called directly, on agent_types lists in any order *)

\* __init__ on cfg: the compiled graph, or none when compile() raises
TryBuildWorkflow(cfg) == IF Compiles(cfg) THEN BuildWorkflow(cfg) ELSE NoWorkflow

\* every list of at most MaxListLen agent types, repetitions included
AllTypeLists == UNION { [1..n -> AgentType] : n \in 0..MaxListLen }

\* the configuration of a direct build: the defaults but for the roles and the flag
BuildConfig(types, refl) ==
    IntegratedAgentConfig(types, refl, DefaultMaxIterations, DefaultFaultToleranceLevel)

BuildInit ==
    /\ config = DefaultConfig
    /\ workflow = NoWorkflow
    /\ pc = "new"
    /\ mode = "none"
    /\ state = NoState
    /\ next_node = END
    /\ steps = 0
    /\ trace = <<>>
    /\ route = "none"
    /\ emitted = <<>>
    /\ response = NoResponse
    /\ run_steps = 0
    /\ broken = {}
    /\ faultEnv = <<>>
    /\ transient = 0
    /\ budgets = <<>>
    /\ levels = NoLevels
    /\ \E types \in AllTypeLists, refl \in BOOLEAN :
          \E reordered \in { l \in AllTypeLists : \A r \in AgentType : In(r, l) <=> In(r, types) } :
              call = [fn |-> "_build_workflow",
                      arg |-> [agent_types |-> types, reordered |-> reordered,
                               reflection_enabled |-> refl]]
    /\ ret = NoReturn

\* the graph is built from the list and from the same roles listed otherwise
CallBuildWorkflow ==
    /\ call.fn = "_build_workflow"
    /\ ~ret.done
    /\ ret' = [done |-> TRUE,
               value |-> [first |-> TryBuildWorkflow(BuildConfig(call.arg.agent_types,
                                                                 call.arg.reflection_enabled)),
                          second |-> TryBuildWorkflow(BuildConfig(call.arg.reordered,
                                                                  call.arg.reflection_enabled))]]
    /\ UNCHANGED <<call, agentVars>>

SpecBuild == BuildInit /\ [][CallBuildWorkflow]_vars

-----------------------------------------------------------------------------
(* _format_response called directly on a result dictionary *)

\* entries of results: without a content key, with an empty content, with text
ResultEntries ==
    { [citations |-> <<>>],
      [content |-> "", citations |-> <<>>],
      [content |-> "alpha", citations |-> <<>>],
      [content |-> "beta gamma", citations |-> <<"src">>] }

\* the dictionaries given to _format_response: with a results list of at most
\* MaxResults entries, or without the results key
ResultDicts ==
    { [results |-> rs, history |-> <<>>] :
        rs \in UNION { [1..n -> ResultEntries] : n \in 0..MaxResults } }
    \cup { [history |-> <<>>] }

FormatInit ==
    /\ config = DefaultConfig
    /\ workflow = BuildWorkflow(DefaultConfig)
    /\ pc = "ready"
    /\ mode = "none"
    /\ state = NoState
    /\ next_node = END
    /\ steps = 0
    /\ trace = <<>>
    /\ route = "none"
    /\ emitted = <<>>
    /\ response = NoResponse
    /\ run_steps = 0
    /\ broken = {}
    /\ faultEnv = <<>>
    /\ transient = 0
    /\ budgets = <<>>
    /\ levels = NoLevels
    /\ \E d \in ResultDicts : call = [fn |-> "_format_response", arg |-> d]
    /\ ret = NoReturn

\* self._format_response(result)
CallFormatResponse ==
    /\ call.fn = "_format_response"
    /\ ~ret.done
    /\ ret' = [done |-> TRUE, value |-> FormatResponse(call.arg)]
    /\ UNCHANGED <<call, agentVars>>

SpecFormat == FormatInit /\ [][CallFormatResponse]_vars

-----------------------------------------------------------------------------
(* _extract_citations and _extract_tool_calls called directly *)

\* entries of results: without a citations key, with no citation, with
\* citations shared with other entries or repeated
CitationEntries ==
    { [content |-> "x"],
      [content |-> "x", citations |-> <<>>],
      [content |-> "x", citations |-> <<"s1">>],
      [content |-> "x", citations |-> <<"s1", "s2">>],
      [content |-> "x", citations |-> <<"s2", "s2">>],
      [content |-> "x", citations |-> <<"s3", "s1">>] }

\* tool call dictionaries: complete, without id, without name and details, empty
ToolCallDicts ==
    { [id |-> "t1", name |-> "search", event_type |-> "result", response |-> "ok",
       details |-> <<"q">>],
      [name |-> "grep", details |-> <<"p", "f">>],
      [id |-> "t2"],
      [event_type |-> "call"] }

\* history events: without a tool_calls key, with no tool call, with some
HistoryEvents ==
    { [agent |-> "code_agent"],
      [agent |-> "code_agent", tool_calls |-> <<>>] }
    \cup { [agent |-> "code_agent", tool_calls |-> <<tc>>] : tc \in ToolCallDicts }
    \cup { [agent |-> "code_agent",
            tool_calls |-> <<[id |-> "t2"], [name |-> "grep", details |-> <<"p", "f">>]>>] }

\* the dictionaries given to _extract_citations
CitationInputs ==
    { [results |-> rs] : rs \in UNION { [1..n -> CitationEntries] : n \in 0..MaxResults } }
    \cup { [history |-> <<>>] }

\* the dictionaries given to _extract_tool_calls
ToolCallInputs ==
    { [history |-> h] : h \in UNION { [1..n -> HistoryEvents] : n \in 0..MaxEvents } }
    \cup { [results |-> <<>>] }

ExtractInit ==
    /\ config = DefaultConfig
    /\ workflow = BuildWorkflow(DefaultConfig)
    /\ pc = "ready"
    /\ mode = "none"
    /\ state = NoState
    /\ next_node = END
    /\ steps = 0
    /\ trace = <<>>
    /\ route = "none"
    /\ emitted = <<>>
    /\ response = NoResponse
    /\ run_steps = 0
    /\ broken = {}
    /\ faultEnv = <<>>
    /\ transient = 0
    /\ budgets = <<>>
    /\ levels = NoLevels
    /\ \/ \E d \in CitationInputs : call = [fn |-> "_extract_citations", arg |-> d]
       \/ \E d \in ToolCallInputs : call = [fn |-> "_extract_tool_calls", arg |-> d]
    /\ ret = NoReturn

\* self._extract_citations(result)
CallExtractCitations ==
    /\ call.fn = "_extract_citations"
    /\ ~ret.done
    /\ \E l \in CitationLists(call.arg) : ret' = [done |-> TRUE, value |-> l]
    /\ UNCHANGED <<call, agentVars>>

\* self._extract_tool_calls(result)
CallExtractToolCalls ==
    /\ call.fn = "_extract_tool_calls"
    /\ ~ret.done
    /\ ret' = [done |-> TRUE, value |-> ExtractToolCalls(call.arg)]
    /\ UNCHANGED <<call, agentVars>>

ExtractNext == CallExtractCitations \/ CallExtractToolCalls

SpecExtract == ExtractInit /\ [][ExtractNext]_vars

-----------------------------------------------------------------------------
(* planning_agent.py: PlanningAgent._create_plan *)

DecimalDigits == "0123456789"

RECURSIVE Str(_)
\* str(i) of a natural number, as the f-strings format it
Str(i) ==
    IF i < 10 THEN CharAt(DecimalDigits, i + 1)
    ELSE Str(i \div 10) \o CharAt(DecimalDigits, (i % 10) + 1)

Min(a, b) == IF a <= b THEN a ELSE b

\* list(range(a, b))
Range(a, b) == [k \in 1..(IF b > a THEN b - a ELSE 0) |-> a + k - 1]

PlanningAgentConfig(max_steps, detail_level, include_constraints, include_assumptions) ==
    [max_steps |-> max_steps, detail_level |-> detail_level,
     include_constraints |-> include_constraints,
     include_assumptions |-> include_assumptions]

ExtractConstraints(query, additional_context) ==
    << "Constraint 1: Must be completed within the specified timeframe",
       "Constraint 2: Must use existing infrastructure",
       "Constraint 3: Must be compatible with current systems" >>

ExtractAssumptions(query, additional_context) ==
    << "Assumption 1: The current system is stable",
       "Assumption 2: Required resources are available",
       "Assumption 3: No major changes to requirements will occur during implementation" >>

\* the dependencies comprehension with range(1, i + 1) in place of range(1, i)
StepDependenciesThroughSelf(i) ==
    LET evens == SelectSeq(Range(1, i + 1), LAMBDA j : j % 2 = 0)
    IN  [k \in 1..Len(evens) |-> "step_" \o Str(evens[k])]

\* [f"step_{j}" for j in range(1, i) if j % 2 == 0]
StepDependencies(i) ==
    LET evens == SelectSeq(Range(1, i), LAMBDA j : j % 2 = 0)
    IN  [k \in 1..Len(evens) |-> "step_" \o Str(evens[k])]

PlanStep(i, query) ==
    [id |-> "step_" \o Str(i),
     title |-> "Step " \o Str(i),
     description |-> "Description for step " \o Str(i) \o " of the plan for: " \o query,
     dependencies |-> StepDependencies(i),
     estimated_effort |-> "medium"]

\* PlanningAgent._create_plan
CreatePlan(pcfg, query, additional_context) ==
    LET indices == Range(1, Min(5, pcfg.max_steps + 1))
    IN  [title |-> "Plan for: " \o query,
         description |-> "This plan addresses the following request: " \o query,
         constraints |-> IF pcfg.include_constraints
                         THEN ExtractConstraints(query, additional_context) ELSE <<>>,
         assumptions |-> IF pcfg.include_assumptions
                         THEN ExtractAssumptions(query, additional_context) ELSE <<>>,
         steps |-> [k \in 1..Len(indices) |-> PlanStep(indices[k], query)]]

\* the configurations given to PlanningAgent
PlanningConfigs ==
    { PlanningAgentConfig(n, d, c, a) :
        n \in -1..MaxSteps, d \in {"low", "medium", "high"}, c \in BOOLEAN, a \in BOOLEAN }

\* no integrated agent is constructed or run while a standalone agent is called
NoIntegratedAgent ==
    /\ config = DefaultConfig
    /\ workflow = NoWorkflow
    /\ pc = "new"
    /\ mode = "none"
    /\ state = NoState
    /\ next_node = END
    /\ steps = 0
    /\ trace = <<>>
    /\ route = "none"
    /\ emitted = <<>>
    /\ response = NoResponse
    /\ run_steps = 0
    /\ broken = {}
    /\ faultEnv = <<>>
    /\ transient = 0
    /\ budgets = <<>>
    /\ levels = NoLevels

PlanInit ==
    /\ NoIntegratedAgent
    /\ \E pcfg \in PlanningConfigs :
           call = [fn |-> "_create_plan",
                   arg |-> [config |-> pcfg, query |-> ChatContext.query,
                            additional_context |-> ChatContext.additional_context]]
    /\ ret = NoReturn

\* self._create_plan(ctx.query, ctx.additional_context)
CallCreatePlan ==
    /\ call.fn = "_create_plan"
    /\ ~ret.done
    /\ ret' = [done |-> TRUE,
               value |-> CreatePlan(call.arg.config, call.arg.query, call.arg.additional_context)]
    /\ UNCHANGED <<call, agentVars>>

SpecPlan == PlanInit /\ [][CallCreatePlan]_vars

-----------------------------------------------------------------------------
(* research_agent.py: ResearchAgent.run and _gather_information.  A        *)
(* relevance score is kept in hundredths: 0.85 is 85.                       *)

ResearchResult(content, source, relevance_score) ==
    [content |-> content, source |-> source, relevance_score |-> relevance_score]

ResearchAgentConfig(max_sources, min_relevance_score, search_depth, web, code, doc) ==
    [max_sources |-> max_sources, min_relevance_score |-> min_relevance_score,
     search_depth |-> search_depth, include_web_search |-> web,
     include_code_search |-> code, include_documentation |-> doc]

PerformWebSearch(query) ==
    << ResearchResult("Web search result 1 for query: " \o query, "web_search_1", 90),
       ResearchResult("Web search result 2 for query: " \o query, "web_search_2", 80) >>

PerformCodeSearch(query, project_id) ==
    << ResearchResult("Code search result 1 for query: " \o query, "code_search_1", 85),
       ResearchResult("Code search result 2 for query: " \o query, "code_search_2", 75) >>

PerformDocumentationSearch(query, project_id) ==
    << ResearchResult("Documentation search result 1 for query: " \o query, "doc_search_1", 95),
       ResearchResult("Documentation search result 2 for query: " \o query, "doc_search_2", 85) >>

\* xs[:n]: the first n elements, and for a negative n all but the last -n
SliceTo(xs, n) ==
    IF n >= 0 THEN SubSeq(xs, 1, Min(n, Len(xs)))
    ELSE SubSeq(xs, 1, IF Len(xs) + n > 0 THEN Len(xs) + n ELSE 0)

\* ResearchAgent._gather_information
GatherInformation(rcfg, ctx) ==
    LET results ==
            (IF rcfg.include_web_search THEN PerformWebSearch(ctx.query) ELSE <<>>)
            \o (IF rcfg.include_code_search
                THEN PerformCodeSearch(ctx.query, ctx.project_id) ELSE <<>>)
            \o (IF rcfg.include_documentation
                THEN PerformDocumentationSearch(ctx.query, ctx.project_id) ELSE <<>>)
        filtered_results ==
            SelectSeq(results, LAMBDA r : r.relevance_score >= rcfg.min_relevance_score)
    IN  SliceTo(filtered_results, rcfg.max_sources)

RECURSIVE InsertByScore(_, _)
\* r put into a list sorted by descending score, after the elements of the
\* same score (sorted is stable)
InsertByScore(sorted, r) ==
    IF Len(sorted) = 0 THEN <<r>>
    ELSE IF sorted[1].relevance_score >= r.relevance_score
         THEN <<sorted[1]>> \o InsertByScore(Tail(sorted), r)
         ELSE <<r>> \o sorted

RECURSIVE SortedByScore(_)
\* sorted(results, key=lambda x: x.relevance_score, reverse=True)
SortedByScore(results) ==
    IF Len(results) = 0 THEN <<>>
    ELSE InsertByScore(SortedByScore(SubSeq(results, 1, Len(results) - 1)),
                       results[Len(results)])

\* ResearchAgent._synthesize_results; the parts are joined by line breaks
SynthesizeResults(results, query) ==
    IF Len(results) = 0
    THEN "I couldn't find any relevant information for your query: " \o query
    ELSE LET sorted_results == SortedByScore(results)
         IN  Join(<<"Here's what I found about your query: " \o query \o "\n">>
                  \o [i \in 1..Len(sorted_results) |->
                         Str(i) \o ". " \o sorted_results[i].content
                         \o " (Source: " \o sorted_results[i].source \o ")"],
                  "\n")

\* ResearchAgent.run: the results gathered and the response made from them
ResearchRun(rcfg, ctx) ==
    LET results == GatherInformation(rcfg, ctx)
    IN  [results |-> results,
         response |-> [response |-> SynthesizeResults(results, ctx.query),
                       tool_calls |-> <<>>,
                       citations |-> [i \in 1..Len(results) |-> results[i].source]]]

\* min_relevance_score values given to ResearchAgent, in hundredths
MinRelevanceScores == {0, 70, 80, 85, 90, 100}

\* the configurations given to ResearchAgent
ResearchConfigs ==
    { ResearchAgentConfig(n, m, 2, w, c, d) :
        n \in -1..MaxSources, m \in MinRelevanceScores,
        w \in BOOLEAN, c \in BOOLEAN, d \in BOOLEAN }

ResearchInit ==
    /\ NoIntegratedAgent
    /\ \E rcfg \in ResearchConfigs :
           call = [fn |-> "ResearchAgent.run", arg |-> [config |-> rcfg, ctx |-> ChatContext]]
    /\ ret = NoReturn

\* await agent.run(ctx)
CallResearchRun ==
    /\ call.fn = "ResearchAgent.run"
    /\ ~ret.done
    /\ ret' = [done |-> TRUE, value |-> ResearchRun(call.arg.config, call.arg.ctx)]
    /\ UNCHANGED <<call, agentVars>>

SpecResearch == ResearchInit /\ [][CallResearchRun]_vars

-----------------------------------------------------------------------------
(* Properties *)

\* a call (run or run_stream) is executing or has ended
InCall == pc \in {"running", "done", "recursion_error"}

\* the k-th invocation of the current call raised
Faulted(k) == k \in 1..Len(faultEnv) /\ faultEnv[k] # <<>>

\* no invocation of the current call raised
NoFaults == \A k \in 1..steps : ~Faulted(k)

\* the last node invoked by the current call
LastNode == IF steps > 0 THEN trace[steps] ELSE "none"

\* the router has just been consulted: reflection_agent was the last node invoked
JustRouted == InCall /\ LastNode = "reflection_agent"

\* the roles listed in agent_types
Enabled(cfg) == { r \in AgentType : In(r, cfg.agent_types) }

ScenarioConfig(cfg) ==
    /\ Enabled(cfg) = {PLANNING, RESEARCH, CODE}
    /\ cfg.reflection_enabled
    /\ cfg.max_iterations = 5

\* C1: a call performs at most max_iterations node invocations, whatever the
\* configuration and the faults.
C1_AtMostMaxIterationsInvocations == InCall => steps <= config.max_iterations

\* C2: remaining_steps is never negative in any state of a call.
C2_BudgetNeverNegative == InCall => state.remaining_steps >= 0

\* C3: a call never ends without a response: it is not cut off by the graph
\* engine while nodes that keep faulting send it round the reflection loop.
C3_EveryCallReturns == pc # "recursion_error"

C5_ScenarioFiveInvocations ==
    (/\ ScenarioConfig(config) /\ config.fault_tolerance_level = 2
     /\ broken = {CODE} /\ transient = 0
     /\ mode = "run" /\ pc = "done")
    => steps = 5

\* C6: in the scenario configuration with no fault, run invokes Planning,
\* Research, Code, Reflection in that order, the router then ends the run,
\* results has 4 entries and errors is empty.
C6_ScenarioNoFaults ==
    (ScenarioConfig(config) /\ mode = "run" /\ pc = "done" /\ NoFaults)
    => /\ trace = <<"planning_agent", "research_agent", "code_agent", "reflection_agent">>
       /\ route = "end"
       /\ Len(state.results) = 4
       /\ state.errors = <<>>

C6_Witness ==
    /\ ScenarioConfig(config) /\ mode = "run" /\ pc = "done" /\ NoFaults
    /\ steps = 4
    /\ response.response # NoResultsMessage

\* C7: whenever the router is consulted with remaining_steps <= 0 it returns
\* "end" and the run goes to END, whatever errors holds.
C7_RouterEndsWhenBudgetSpent ==
    (JustRouted /\ state.remaining_steps <= 0) => (route = "end" /\ next_node = END)

\* witness of C7: the budget is spent while the latest error is one whose
\* class is an enabled role
C7_Witness ==
    /\ JustRouted
    /\ state.remaining_steps <= 0
    /\ Len(state.errors) > 0
    /\ ClassifyError(state.errors[Len(state.errors)]) \in Enabled(config)
    /\ route = "end"

\* the decision the latest error alone dictates
DecisionOfLastError ==
    IF Len(state.errors) > 0
       /\ ClassifyError(state.errors[Len(state.errors)]) \in Enabled(config)
    THEN ClassifyError(state.errors[Len(state.errors)])
    ELSE "end"

\* C8: with remaining_steps > 0 the router returns the class of the latest
\* error if that role is enabled and "end" otherwise, and the node that
\* follows Reflection is the registered node of that role (or END).
C8_RouterFollowsLastError ==
    /\ (JustRouted /\ state.remaining_steps > 0)
       => /\ route = DecisionOfLastError
          /\ next_node = IF route = "end" THEN END ELSE NodeOf(route)
    /\ (pc = "running") => next_node \in workflow.nodes \cup {END}

\* witness of C8: two errors of different classes are recorded and the router
\* sends the run to the role of the later one
C8_Witness ==
    /\ JustRouted
    /\ state.remaining_steps > 0
    /\ Len(state.errors) > 1
    /\ ClassifyError(state.errors[1]) # ClassifyError(state.errors[Len(state.errors)])
    /\ ClassifyError(state.errors[1]) \in Enabled(config)
    /\ route = ClassifyError(state.errors[Len(state.errors)])
    /\ next_node = NodeOf(route)

\* the vocabularies the fragments of the message belong to
KindsOf(frags) == { frags[i].kind : i \in 1..Len(frags) }

\* C9: the classifier returns code for a message with a code keyword, else
\* research for one with a research keyword, else planning for one with a
\* planning keyword, else code, in any letter case.
C9_ClassifierFirstMatch ==
    (call.fn = "_classify_error" /\ ret.done)
    => ret.value = IF "code" \in KindsOf(call.arg.fragments) THEN "code"
                   ELSE IF "research" \in KindsOf(call.arg.fragments) THEN "research"
                   ELSE IF "planning" \in KindsOf(call.arg.fragments) THEN "planning"
                   ELSE "code"

\* witness of C9: a message with an upper-case code keyword after a research
\* keyword is classified as code
C9_Witness ==
    /\ call.fn = "_classify_error"
    /\ ret.done
    /\ call.arg.error = "DATA RUNTIME"
    /\ ret.value = "code"

\* C10: run_stream yields one response per node invocation, as many as run
\* performed invocations for the same request and faults, and the last one
\* equals the response run returned.
C10_StreamMatchesRun ==
    (mode = "stream" /\ pc = "done")
    => /\ Len(emitted) = steps
       /\ Len(emitted) = run_steps
       /\ (steps > 0 => emitted[Len(emitted)] = response)

-----------------------------------------------------------------------------
(* Properties of the built graph *)

\* a direct build has returned a compiled graph
Built == call.fn = "_build_workflow" /\ ret.done /\ ret.value.first.compiled

\* the nodes the entry edges of graph g lead to
EntryNodes(g) == { e[2] : e \in { d \in g.edges : d[1] = START } }

\* the worker roles among the listed ones, in the priority of the entry point
ListedWorkers(types) == SelectSeq(<<PLANNING, RESEARCH, CODE>>, LAMBDA r : In(r, types))

\* C11: the entry node of a built graph is the node of the first enabled role
\* among Planning, Research, Code; it is never reflection_agent and it is a
\* registered node.
C11_EntryNodeByPriority ==
    Built =>
        /\ Len(ListedWorkers(call.arg.agent_types)) > 0
        /\ EntryNodes(ret.value.first) = {NodeOf(ListedWorkers(call.arg.agent_types)[1])}
        /\ "reflection_agent" \notin EntryNodes(ret.value.first)
        /\ EntryNodes(ret.value.first) \subseteq ret.value.first.nodes

\* witness of C11: Planning is not listed, Research is listed after Code and
\* Reflection, and the graph enters at research_agent
C11_Witness ==
    /\ Built
    /\ call.arg.agent_types = <<REFLECTION, CODE, RESEARCH>>
    /\ call.arg.reflection_enabled
    /\ EntryNodes(ret.value.first) = {"research_agent"}

\* the edges of g, the branches out of reflection_agent included
GraphEdges(g) ==
    g.edges \cup { <<"reflection_agent", g.branches[k]>> : k \in DOMAIN g.branches }

RECURSIVE ReachableFrom(_, _)
\* the nodes of g reachable from the set S along its edges
ReachableFrom(g, S) ==
    LET T == S \cup { e[2] : e \in { d \in GraphEdges(g) : d[1] \in S } }
    IN  IF T = S THEN S ELSE ReachableFrom(g, T)

\* C12: in a built graph every registered node is reachable from the entry
\* node, every node other than reflection_agent has at most one outgoing
\* static edge, and only one of them, the terminal node, has none.
C12_GraphIsOnePath ==
    Built =>
        LET g == ret.value.first
            workers == g.nodes \ {"reflection_agent"}
            out(n) == { e \in g.edges : e[1] = n }
        IN  /\ g.nodes \subseteq ReachableFrom(g, {START})
            /\ \A n \in workers : Cardinality(out(n)) <= 1
            /\ Cardinality({ n \in workers : out(n) = {} }) <= 1

\* the configuration names at least one of Code, Research, Planning
HasWorkerRole(cfg) == Enabled(cfg) \cap {CODE, RESEARCH, PLANNING} # {}

\* C13: without a Code, Research or Planning role the constructor fails and
\* no run state is ever created; every edge of a graph that was built starts
\* and ends at a registered node (or START / END).
C13_BuildFailsWithoutWorkerRole ==
    /\ (pc # "new" /\ call.fn = "none" /\ ~HasWorkerRole(config))
       => /\ pc = "config_error"
          /\ workflow = NoWorkflow
          /\ state = NoState
          /\ mode = "none"
          /\ steps = 0
    /\ workflow.compiled
       => \A e \in GraphEdges(workflow) :
              /\ e[1] \in workflow.nodes \cup {START}
              /\ e[2] \in workflow.nodes \cup {END}

\* witness of C13: construction has failed for a configuration that lists
\* only Reflection and enables reflection
C13_Witness ==
    /\ pc = "config_error"
    /\ config.agent_types = <<REFLECTION>>
    /\ config.reflection_enabled
    /\ state = NoState

\* C19: the graph built from a list of roles equals the graph built from any
\* list of the same roles in another order or with repetitions: same entry
\* node, same nodes, same edges, or the same failure.
C19_BuildIgnoresListOrder ==
    (call.fn = "_build_workflow" /\ ret.done) => ret.value.first = ret.value.second

\* witness of C19: two different lists of the same roles have been built
C19_Witness ==
    /\ Built
    /\ call.arg.agent_types = <<CODE, PLANNING>>
    /\ call.arg.reordered = <<PLANNING, CODE, CODE>>
    /\ ret.value.second.compiled

-----------------------------------------------------------------------------
(* Properties of the budget, of faults and of the sequences of the state *)

\* the last invocation of reflection_agent before the k-th one of the call, 0 if none
PrevRouted(k) ==
    IF \E j \in 1..(k - 1) : trace[j] = "reflection_agent"
    THEN CHOOSE j \in 1..(k - 1) :
             /\ trace[j] = "reflection_agent"
             /\ \A i \in (j + 1)..(k - 1) : trace[i] # "reflection_agent"
    ELSE 0

\* a pass through the retry loop has just ended: the router is consulted
\* again after it sent the run back to a role
PassEnded == JustRouted /\ PrevRouted(steps) > 0

\* the invocations of the pass that did not fault
SucceededInPass == { i \in (PrevRouted(steps) + 1)..steps : ~Faulted(i) }

C15_EveryInvocationDecrements ==
    InCall => \A k \in 1..steps : budgets[k] = config.max_iterations - k

\* C16: a fault of a Code, Research or Planning node does not end the call,
\* and the node that follows is the one that follows when the node succeeds.
C16_FaultKeepsRouting ==
    [][ (steps' = steps + 1 /\ faultEnv'[steps'] # <<>> /\ next_node # "reflection_agent")
        => /\ pc' = "running"
           /\ next_node' = NextNode(workflow, config, next_node,
                                    NodeFunction(next_node, config, state, <<>>)) ]_vars

\* witness of C16: planning_agent faulted and research_agent was invoked next
C16_Witness ==
    /\ InCall
    /\ steps >= 2
    /\ Faulted(steps - 1)
    /\ trace[steps - 1] = "planning_agent"
    /\ trace[steps] = "research_agent"
    /\ Len(state.errors) > 0

IsRecoveryResult(r) == \E role \in AgentType : r = RecoveryResult(role)

\* results without the recovery placeholders
WithoutPlaceholders(results) == SelectSeq(results, LAMBDA r : ~IsRecoveryResult(r))

\* C17: at every step of a run, the run with the same request, roles, flag,
\* budget and faults but another fault_tolerance_level is about to invoke the
\* same node and has the same errors, history and budget, and its results
\* differ only by recovery placeholders.
C17_LevelOnlyChangesPlaceholders ==
    InCall =>
        \A f \in FaultToleranceLevels :
            /\ levels[f].next_node = next_node
            /\ levels[f].state.errors = state.errors
            /\ levels[f].state.history = state.history
            /\ levels[f].state.remaining_steps = state.remaining_steps
            /\ levels[f].state.current_agent = state.current_agent
            /\ WithoutPlaceholders(levels[f].state.results) = WithoutPlaceholders(state.results)

\* witness of C17: a run at level 1 in which a worker faulted and Reflection
\* sent the run back, while the same run at level 2 has other results
C17_Witness ==
    /\ mode = "run"
    /\ pc = "done"
    /\ config.fault_tolerance_level = 1
    /\ steps >= 4
    /\ \E k \in 1..steps : Faulted(k) /\ trace[k] # "reflection_agent"
    /\ levels[2].state.results # state.results
    /\ levels[1].state = state

\* the contents of the entries of results that have a non-empty content
ShownContents(d) ==
    IF "results" \in DOMAIN d
    THEN SelectSeq([i \in 1..Len(d.results) |->
                        IF "content" \in DOMAIN d.results[i] THEN d.results[i].content ELSE ""],
                   LAMBDA c : c # "")
    ELSE <<>>

\* C18: the rendered text is the non-empty contents joined by a blank line,
\* it is the no-results message exactly when there is no such content, and
\* it is never the empty string.
C18_TextNeverEmpty ==
    (call.fn = "_format_response" /\ ret.done) =>
        /\ ret.value # ""
        /\ (ret.value = NoResultsMessage) <=> (Len(ShownContents(call.arg)) = 0)
        /\ Len(ShownContents(call.arg)) > 0 => ret.value = Join(ShownContents(call.arg), "\n\n")

\* s is a prefix of t
IsPrefix(s, t) == Len(s) <= Len(t) /\ SubSeq(t, 1, Len(s)) = s

\* C20: every node invocation, faulted or not, leaves results, errors and
\* history with their former value as a prefix.
C20_SequencesAppendOnly ==
    [][ (steps' = steps + 1)
        => /\ IsPrefix(state.results, state'.results)
           /\ IsPrefix(state.errors, state'.errors)
           /\ IsPrefix(state.history, state'.history) ]_vars

\* witness of C20: a fault has just added the second error of a call that
\* already had results and history
C20_Witness ==
    /\ InCall
    /\ steps >= 2
    /\ Faulted(steps)
    /\ Len(state.errors) >= 2
    /\ Len(state.results) >= 1
    /\ Len(state.history) >= 1

-----------------------------------------------------------------------------
(* Properties of the order of invocations and of the frame of the state *)

\* the number of invocations of node n in the current call
TimesInvoked(n) == Cardinality({ i \in 1..steps : trace[i] = n })

\* the last enabled node of the chain when reflection is disabled
TerminalNode(cfg) == IF In(CODE, cfg.agent_types) THEN "code_agent" ELSE "research_agent"

\* C21: with reflection disabled, a run that has ended has invoked the last
\* enabled node of the chain (Code if enabled, else Research) exactly once
\* and last, that node has an edge to END, and no node was invoked twice.
C21_EndsAfterLastEnabledNode ==
    (~config.reflection_enabled /\ pc = "done"
        /\ (In(CODE, config.agent_types) \/ In(RESEARCH, config.agent_types)))
    => /\ <<TerminalNode(config), END>> \in workflow.edges
       /\ TimesInvoked(TerminalNode(config)) = 1
       /\ LastNode = TerminalNode(config)
       /\ \A n \in workflow.nodes : TimesInvoked(n) <= 1

\* C22: run_stream has emitted one element per node invocation, the nodes
\* were invoked in the order of the edges, and the latest element is the
\* response rendered from the state after the latest invocation.
C22_StreamFollowsInvocations ==
    (mode = "stream" /\ InCall /\ steps > 0)
    => /\ Len(emitted) = steps
       /\ \A i \in 1..(steps - 1) :
              \A e \in workflow.edges : e[1] = trace[i] => trace[i + 1] = e[2]
       /\ emitted[steps] = ChatAgentResponse(state)

\* C23: after every node invocation, faulted or not, current_agent is the
\* name of the node that was just invoked.
C23_CurrentAgentIsLastNode ==
    (InCall /\ steps > 0) => state.current_agent = LastNode

\* witness of C23: code_agent has just faulted after another node ran
C23_Witness ==
    /\ InCall
    /\ steps >= 2
    /\ Faulted(steps)
    /\ trace[steps] = "code_agent"
    /\ trace[steps - 1] = "research_agent"
    /\ state.current_agent = "code_agent"

\* C24: in every state of a call, query and context have the values they
\* were created with from the request.
C24_QueryAndContextUnchanged ==
    InCall =>
        /\ state.query = ChatContext.query
        /\ state.context.project_id = ChatContext.project_id
        /\ state.context.agent_id = ChatContext.curr_agent_id
        /\ state.context.history = ChatContext.history
        /\ state.context.node_ids = ChatContext.node_ids
        /\ state.context.additional_context = ChatContext.additional_context
        /\ DOMAIN state.context =
               {"project_id", "agent_id", "history", "node_ids", "additional_context"}

\* witness of C24: a call has ended and returned its response after faults,
\* retries and a router decision
C24_Witness ==
    /\ pc = "done"
    /\ mode = "run"
    /\ steps >= 5
    /\ \E k \in 1..steps : Faulted(k)
    /\ TimesInvoked("reflection_agent") >= 2
    /\ response.response # NoResultsMessage
    /\ state.query = "build a login page"

-----------------------------------------------------------------------------
(* Properties of errors, history and the router over a whole run *)

\* the invocations of the current call that faulted
FaultedSteps == { k \in 1..steps : Faulted(k) }

\* C27 as stated: once an error whose class is an enabled role is recorded,
\* every router decision with remaining_steps > 0 is that role, and a run
\* that ends out of reflection_agent has no budget left.
C27_RoutesBackToFaultedClass ==
    /\ (JustRouted /\ state.remaining_steps > 0)
       => \A i \in 1..Len(state.errors) :
              ClassifyError(state.errors[i]) \in Enabled(config)
              => route = ClassifyError(state.errors[i])
    /\ (JustRouted /\ pc = "done"
           /\ \E i \in 1..Len(state.errors) : ClassifyError(state.errors[i]) \in Enabled(config))
       => state.remaining_steps <= 0

\* C27 amended: errors holds one message per fault of the call and is never
\* cleared, so after a fault every router decision with remaining_steps > 0
\* is the class of the latest error if that role is enabled, even when every
\* invocation since has succeeded; the decision is "end" only when the
\* budget is spent or the class of the latest error is not an enabled role.
C27_RoutesBackToLatestClass ==
    (JustRouted /\ FaultedSteps # {})
    => /\ Len(state.errors) = Cardinality(FaultedSteps)
       /\ route = (IF state.remaining_steps <= 0 THEN "end" ELSE DecisionOfLastError)
       /\ (pc = "done" => route = "end")
       /\ route = "end"
          => \/ state.remaining_steps <= 0
             \/ ClassifyError(state.errors[Len(state.errors)]) \notin Enabled(config)

\* witness of C27: every invocation of a retry pass succeeded and the router
\* sends the run back again
C27_Witness ==
    /\ PassEnded
    /\ Cardinality(SucceededInPass) = steps - PrevRouted(steps)
    /\ FaultedSteps # {}
    /\ state.remaining_steps > 0
    /\ route \in Enabled(config)
    /\ next_node = NodeOf(route)

\* C28: in every state of a call, remaining_steps + len(history) is
\* max_iterations.
C28_BudgetPlusHistory ==
    InCall => state.remaining_steps + Len(state.history) = config.max_iterations

\* witness of C28: a call with faulted and successful invocations
C28_Witness ==
    /\ InCall
    /\ steps >= 3
    /\ Cardinality(FaultedSteps) >= 2
    /\ Len(state.history) >= 1
    /\ Len(state.history) = steps - Cardinality(FaultedSteps)

\* C29: in a call without faults errors is empty, reflection_agent is
\* invoked at most once and the router's decision is "end" whatever the
\* remaining budget.
C29_NoFaultEndsAtFirstDecision ==
    (InCall /\ NoFaults)
    => /\ state.errors = <<>>
       /\ TimesInvoked("reflection_agent") <= 1
       /\ JustRouted => (route = "end" /\ next_node = END)

\* witness of C29: the router has decided "end" with budget left
C29_Witness ==
    /\ JustRouted
    /\ NoFaults
    /\ state.remaining_steps > 0
    /\ route = "end"
    /\ pc = "done"

\* an exception text that contains no keyword of _classify_error
HasNoKeyword(e) ==
    ~ContainsAny(Lower(e), CodeKeywords \o ResearchKeywords \o PlanningKeywords)

\* C30: a fault whose exception text has no keyword records "Error in
\* <role> agent: <text>", which classifies as the role of the node for
\* Code, Research and Planning and as Code for Reflection; the router's
\* decision is never reflection.
C30_OwnFaultClassifiesAsOwnRole ==
    [][ (steps' = steps + 1 /\ faultEnv'[steps'] # <<>> /\ HasNoKeyword(faultEnv'[steps'][1]))
        => LET role == RoleOfNode(next_node)
               msg == state'.errors[Len(state'.errors)]
           IN  /\ Len(state'.errors) = Len(state.errors) + 1
               /\ msg = "Error in " \o role \o " agent: " \o faultEnv'[steps'][1]
               /\ ClassifyError(msg) = (IF role = REFLECTION THEN CODE ELSE role)
               /\ route' \in {"none", "end", CODE, RESEARCH, PLANNING} ]_vars

\* witness of C30: Research faulted, then Reflection faulted with a text
\* without keyword and the router sends the run to Code
C30_Witness ==
    /\ JustRouted
    /\ Faulted(steps)
    /\ HasNoKeyword(faultEnv[steps][1])
    /\ \E k \in 1..(steps - 1) : Faulted(k) /\ trace[k] = "research_agent"
    /\ ClassifyError(state.errors[Len(state.errors)]) = CODE
    /\ route = CODE

-----------------------------------------------------------------------------
(* Properties of _extract_citations and _extract_tool_calls *)

\* the citation strings attached to an entry of results
Attached(d) ==
    IF "results" \in DOMAIN d
    THEN { c \in {"s1", "s2", "s3"} :
             \E i \in 1..Len(d.results) :
                 /\ "citations" \in DOMAIN d.results[i]
                 /\ \E j \in 1..Len(d.results[i].citations) : d.results[i].citations[j] = c }
    ELSE {}

\* C25: the rendered citations hold every citation string attached to an
\* entry of results exactly once and nothing else.
C25_CitationsOnceEach ==
    (call.fn = "_extract_citations" /\ ret.done) =>
        /\ \A c \in Attached(call.arg) :
               Cardinality({ i \in 1..Len(ret.value) : ret.value[i] = c }) = 1
        /\ \A i \in 1..Len(ret.value) : ret.value[i] \in Attached(call.arg)

\* witness of C25: a citation is attached to two entries, another twice to
\* one entry, and three citations are rendered
C25_Witness ==
    /\ call.fn = "_extract_citations"
    /\ ret.done
    /\ call.arg = [results |-> << [content |-> "x", citations |-> <<"s1", "s2">>],
                                  [content |-> "x", citations |-> <<"s2", "s2">>],
                                  [content |-> "x", citations |-> <<"s3", "s1">>] >>]
    /\ Len(ret.value) = 3
    /\ ret.value[1] = "s3"

\* the events of the history given to _extract_tool_calls
EventsOf(d) == IF "history" \in DOMAIN d THEN d.history ELSE <<>>

\* the tool calls recorded by an event
CallsOf(event) == IF "tool_calls" \in DOMAIN event THEN event.tool_calls ELSE <<>>

RECURSIVE CallsBefore(_, _)
\* the number of tool calls recorded by the events before the i-th
CallsBefore(h, i) == IF i <= 1 THEN 0 ELSE CallsBefore(h, i - 1) + Len(CallsOf(h[i - 1]))

\* C26: the rendered tool calls are one record per tool call of the
\* history, by event and then by position in the event; a missing id or
\* name is rendered "unknown" and missing details as the empty map.
C26_ToolCallsInOrder ==
    (call.fn = "_extract_tool_calls" /\ ret.done) =>
        LET h == EventsOf(call.arg)
        IN  /\ Len(ret.value) = CallsBefore(h, Len(h) + 1)
            /\ \A i \in 1..Len(h) : \A j \in 1..Len(CallsOf(h[i])) :
                   LET tc == CallsOf(h[i])[j]
                       r == ret.value[CallsBefore(h, i) + j]
                   IN  /\ r.call_id = (IF "id" \in DOMAIN tc THEN tc.id ELSE "unknown")
                       /\ r.tool_name = (IF "name" \in DOMAIN tc THEN tc.name ELSE "unknown")
                       /\ r.tool_call_details =
                              (IF "details" \in DOMAIN tc THEN tc.details ELSE <<>>)

\* witness of C26: three tool calls of two events are rendered, the complete
\* one last, the first two with an unknown name and an unknown id
C26_Witness ==
    /\ call.fn = "_extract_tool_calls"
    /\ ret.done
    /\ Len(EventsOf(call.arg)) = 3
    /\ Len(CallsOf(call.arg.history[2])) = 0
    /\ Len(ret.value) = 3
    /\ ret.value[1].tool_name = "unknown"
    /\ ret.value[2].call_id = "unknown"
    /\ ret.value[3].call_id = "t1"
    /\ ret.value[1].tool_call_details = <<>>

-----------------------------------------------------------------------------
(* Properties of the Reflection node in the graph and in a run *)

\* C31: reflection_agent is a node of the built graph exactly when
\* reflection_enabled is set, whether or not the Reflection role is listed;
\* with reflection enabled and Code not listed no edge leads to
\* reflection_agent, and neither it nor the router is ever invoked.
C31_ReflectionNodeFollowsFlag ==
    /\ workflow.compiled
       => ("reflection_agent" \in workflow.nodes) <=> config.reflection_enabled
    /\ (workflow.compiled /\ config.reflection_enabled /\ ~In(CODE, config.agent_types))
       => /\ \A e \in GraphEdges(workflow) : e[2] # "reflection_agent"
          /\ InCall => (TimesInvoked("reflection_agent") = 0 /\ route = "none")

\* witness of C31: a run of an agent with Reflection listed and enabled but
\* without Code has ended after a fault, reflection_agent being registered
C31_Witness ==
    /\ pc = "done"
    /\ config.agent_types = <<RESEARCH, REFLECTION>>
    /\ config.reflection_enabled
    /\ "reflection_agent" \in workflow.nodes
    /\ steps >= 1
    /\ Len(state.errors) > 0
    /\ route = "none"

\* the static chain from a node up to Code, then reflection_agent
ChainFrom(node) ==
    LET chain == SelectSeq(<<"planning_agent", "research_agent", "code_agent">>,
                           LAMBDA n : n \in workflow.nodes)
        from == CHOOSE k \in 1..Len(chain) : chain[k] = node
    IN  Append(SubSeq(chain, from, Len(chain)), "reflection_agent")

\* the invocations of reflection_agent that were followed by another node
Retried == { i \in 1..(steps - 1) : trace[i] = "reflection_agent" }

\* C32: reflection_agent is never invoked twice in a row, and after every
\* decision to go to a role the nodes invoked are that role's node, the
\* nodes after it up to code_agent and reflection_agent again, all of them
\* before the run ends.
C32_RetryReturnsToReflection ==
    InCall =>
        \A i \in Retried :
            /\ trace[i + 1] # "reflection_agent"
            /\ \A j \in 1..Len(ChainFrom(trace[i + 1])) :
                   i + j <= steps => trace[i + j] = ChainFrom(trace[i + 1])[j]
            /\ pc # "running" => i + Len(ChainFrom(trace[i + 1])) <= steps

-----------------------------------------------------------------------------
(* Properties of the standalone agents *)

\* the ids of the steps of a plan, in order
StepIds == <<"step_1", "step_2", "step_3", "step_4">>

GatherPosition(source) ==
    CASE source = "web_search_1" -> 1
      [] source = "web_search_2" -> 2
      [] source = "code_search_1" -> 3
      [] source = "code_search_2" -> 4
      [] source = "doc_search_1" -> 5
      [] source = "doc_search_2" -> 6

KindEnabled(rcfg, source) ==
    CASE GatherPosition(source) \in {1, 2} -> rcfg.include_web_search
      [] GatherPosition(source) \in {3, 4} -> rcfg.include_code_search
      [] GatherPosition(source) \in {5, 6} -> rcfg.include_documentation

\* C34: ResearchAgent.run returns at most max_sources results, each of an
\* enabled source kind and of relevance >= min_relevance_score, in gathering
\* order (web, code, documentation), and its citations are the sources of
\* the returned results.
C34_ResearchResultsBoundedAndFiltered ==
    (call.fn = "ResearchAgent.run" /\ ret.done) =>
        LET rcfg == call.arg.config
            results == ret.value.results
        IN  /\ Len(results) <= rcfg.max_sources
            /\ \A i \in 1..Len(results) :
                   /\ KindEnabled(rcfg, results[i].source)
                   /\ results[i].relevance_score >= rcfg.min_relevance_score
            /\ \A i, j \in 1..Len(results) :
                   i < j => GatherPosition(results[i].source) < GatherPosition(results[j].source)
            /\ Len(ret.value.response.citations) = Len(results)
            /\ \A i \in 1..Len(results) : ret.value.response.citations[i] = results[i].source

====
